---- MODULE Spec2Model ----
(***************************************************************************)
(* Model of the disaster-events cleaning pipeline                          *)
(* (disaster-data-cleaning.py): the script reads the raw CSV, parses the   *)
(* date column, derives temporal columns, drops rows with missing values,  *)
(* drops duplicates, filters on value ranges, derives four categorical     *)
(* columns and writes disaster_events_cleaned.csv.                         *)
(*                                                                         *)
(* A data frame is a sequence of entries [index, row]; a row is a record   *)
(* of cells, one per column.  A cell is <<v>> for a value v and <<>> for   *)
(* a missing value (NaN / NaT / empty CSV field).  The columns event_id,   *)
(* latitude and longitude take part in no computation of the script and    *)
(* are not carried; location stands for such a column.                     *)
(***************************************************************************)
EXTENDS Integers, Sequences, FiniteSets, TLC

\* Largest number of rows of a raw input file.
MaxRows == 3
\* response_time_hours is held in units of 1/HourUnits hour (5.9 h = 59).
HourUnits == 10
\* infrastructure_damage_index is held in units of 1/IndexUnits (0.5 = 5).
IndexUnits == 10

VARIABLES
    pc,           \* the statement of the script to run next
    raw_csv,      \* contents of synthetic_disaster_events_2025.csv
    df,           \* the script's data frame
    cleaned_csv,  \* contents of disaster_events_cleaned.csv
    stdout,       \* the counts the script has printed
    run,          \* 1: cleaning the raw file; 2: re-cleaning its own output
    first_csv,    \* what the first run wrote (kept for the second run)
    events_csv,   \* contents of disaster_events.csv, the dashboard's data
    cache,        \* st.cache_data's entry for load_data: <<>> or <<frame>>
    reads,        \* how many times load_data has read disaster_events.csv
    heap,         \* the data frame objects alive: object id -> frame
    next_id,      \* the id the next new object gets
    session_state,\* st.session_state: key -> object id (0: key not set)
    dpc,          \* where the running page script stands
    page,         \* the page whose script runs
    local,        \* the page script's variables
    widgets,      \* the values of the sidebar widgets: <<>> or <<config>>
    runs          \* how many script runs were started

cleaner_vars == <<pc, raw_csv, df, cleaned_csv, stdout, run, first_csv>>

dash_vars ==
    <<events_csv, cache, reads, heap, next_id, session_state, dpc, page,
      local, widgets, runs>>

vars == <<cleaner_vars, dash_vars>>

----------------------------------------------------------------------------
(* Cells and pandas' comparisons                                           *)

NaN == <<>>
Cell(v) == <<v>>
Val(c) == c[1]
isna(c) == c = NaN

\* A comparison with NaN is False, whatever the operator.
Ge(c, k) == IF isna(c) THEN FALSE ELSE Val(c) >= k
Le(c, k) == IF isna(c) THEN FALSE ELSE Val(c) <= k
Lt(c, k) == IF isna(c) THEN FALSE ELSE Val(c) < k
Gt(c, k) == IF isna(c) THEN FALSE ELSE Val(c) > k

BaseColumns ==
    {"date", "disaster_type", "location", "severity_level",
     "affected_population", "estimated_economic_loss_usd",
     "response_time_hours", "infrastructure_damage_index",
     "aid_provided", "is_major_disaster"}

TemporalColumns ==
    {"year", "month", "month_name", "quarter", "day_of_week", "week_of_year"}

CategoryColumns ==
    {"severity_category", "economic_impact_category",
     "response_category", "population_impact_category"}

\* df[mask]: the entries at the positions of mask, in their order.
RECURSIVE BoolIndex(_, _)
BoolIndex(d, mask) ==
    IF d = <<>> THEN <<>>
    ELSE LET n == Len(d)
         IN  BoolIndex(SubSeq(d, 1, n - 1), mask)
               \o (IF n \in mask THEN <<d[n]>> ELSE <<>>)

\* df[col] = f(df[...]) : every row gains (or replaces) the column col.
AssignColumn(d, col, f(_)) ==
    [i \in 1..Len(d) |->
        LET e == d[i]
        IN  [index |-> e.index,
             row   |-> [c \in (DOMAIN e.row) \cup {col} |->
                           IF c = col THEN f(e.row) ELSE e.row[c]]]]

----------------------------------------------------------------------------
(* Calendar dates                                                          *)

Date(y, m, d) == [year |-> y, month |-> m, day |-> d]

\* A date as CSV text: its numbers in the order the format writes them.
strftime(dt, fmt) ==
    IF fmt = "%Y-%m-%d" THEN <<dt.year, dt.month, dt.day>>
    ELSE <<dt.month, dt.day, dt.year>>          \* "%m/%d/%Y"

\* pd.to_datetime on one text cell: a leading four-digit number is a year
\* (year-month-day); otherwise the text is read month first.
to_datetime(c) ==
    IF isna(c) THEN NaN
    ELSE LET t == Val(c)
         IN  IF t[1] > 31 THEN Cell(Date(t[1], t[2], t[3]))
             ELSE Cell(Date(t[3], t[1], t[2]))

IsLeap(y) == (y % 4 = 0) /\ ((y % 100 # 0) \/ (y % 400 = 0))

DaysBeforeMonth(y, m) ==
    LET cum == <<0, 31, 59, 90, 120, 151, 181, 212, 243, 273, 304, 334>>
    IN  cum[m] + (IF m > 2 /\ IsLeap(y) THEN 1 ELSE 0)

DaysInMonth(y, m) ==
    LET len == <<31, 28, 31, 30, 31, 30, 31, 31, 30, 31, 30, 31>>
    IN  len[m] + (IF m = 2 /\ IsLeap(y) THEN 1 ELSE 0)

\* pd.to_datetime accepts the cell: it is missing, or its numbers are a day
\* of the calendar in one of the two orders.
parseable(c) ==
    \/ isna(c)
    \/ LET t == Val(c)
           ymd == IF t[1] > 31 THEN t ELSE <<t[3], t[1], t[2]>>
       IN  /\ ymd[2] \in 1..12
           /\ ymd[3] >= 1
           /\ ymd[3] <= DaysInMonth(ymd[1], ymd[2])

\* Proleptic Gregorian ordinal: 1 is 0001-01-01.
Ordinal(dt) ==
    LET y == dt.year - 1
    IN  365 * y + (y \div 4) - (y \div 100) + (y \div 400)
          + DaysBeforeMonth(dt.year, dt.month) + dt.day

\* 0 is Monday.
Weekday(dt) == (Ordinal(dt) + 6) % 7

\* Ordinal of the Monday that starts ISO week 1 of year y.
IsoWeek1Monday(y) ==
    LET firstday == Ordinal(Date(y, 1, 1))
        firstweekday == (firstday + 6) % 7
        monday == firstday - firstweekday
    IN  IF firstweekday > 3 THEN monday + 7 ELSE monday

IsoWeek(dt) ==
    LET today == Ordinal(dt)
        w1 == IsoWeek1Monday(dt.year)
    IN  IF today < w1
        THEN ((today - IsoWeek1Monday(dt.year - 1)) \div 7) + 1
        ELSE IF today >= IsoWeek1Monday(dt.year + 1) THEN 1
        ELSE ((today - w1) \div 7) + 1

MonthNames ==
    <<"January", "February", "March", "April", "May", "June", "July",
      "August", "September", "October", "November", "December">>

DayNames ==
    <<"Monday", "Tuesday", "Wednesday", "Thursday", "Friday", "Saturday",
      "Sunday">>

\* The .dt accessors give a missing value for a missing date.
dt_year(c) == IF isna(c) THEN NaN ELSE Cell(Val(c).year)
dt_month(c) == IF isna(c) THEN NaN ELSE Cell(Val(c).month)
dt_month_name(c) == IF isna(c) THEN NaN ELSE Cell(MonthNames[Val(c).month])
dt_quarter(c) == IF isna(c) THEN NaN ELSE Cell(((Val(c).month - 1) \div 3) + 1)
dt_day_name(c) == IF isna(c) THEN NaN ELSE Cell(DayNames[Weekday(Val(c)) + 1])
dt_week(c) == IF isna(c) THEN NaN ELSE Cell(IsoWeek(Val(c)))

----------------------------------------------------------------------------
(* CSV files                                                               *)

NoFile == [exists |-> FALSE, rows |-> <<>>]
File(rows) == [exists |-> TRUE, rows |-> rows]

\* pd.read_csv: one entry per line of the file, indexed 0, 1, 2, ...
read_csv(file) ==
    [i \in 1..Len(file.rows) |-> [index |-> i - 1, row |-> file.rows[i]]]

\* One row as to_csv writes it: a date as ISO text, any other cell as it is.
CsvRow(r) ==
    [c \in DOMAIN r |->
        IF c = "date" /\ ~isna(r[c])
        THEN Cell(strftime(Val(r[c]), "%Y-%m-%d")) ELSE r[c]]

\* to_csv with date_format="%d/%m/%Y".
to_csv_dayfirst(d) ==
    File([i \in 1..Len(d) |->
            [c \in DOMAIN d[i].row |->
                IF c = "date" /\ ~isna(d[i].row[c])
                THEN LET dt == Val(d[i].row[c])
                     IN  Cell(<<dt.day, dt.month, dt.year>>)
                ELSE d[i].row[c]]])

\* to_csv of the frame in reverse order.
to_csv_reversed(d) ==
    File([i \in 1..Len(d) |-> CsvRow(d[Len(d) + 1 - i].row)])

\* df.to_csv(path, index=False): the rows in frame order, without the index.
to_csv(d) == File([i \in 1..Len(d) |-> CsvRow(d[i].row)])

\* A written file with its derived columns removed.
BaseProjection(file) ==
    File([i \in 1..Len(file.rows) |->
            [c \in BaseColumns |-> file.rows[i][c]]])

----------------------------------------------------------------------------
(* Steps 3-5: missing values, duplicates, ranges                           *)

HasNa(r) == \E c \in DOMAIN r : isna(r[c])

\* df.dropna() with a subset: only the date column is looked at.
dropna_subset(d) ==
    BoolIndex(d, {i \in 1..Len(d) : ~isna(d[i].row["date"])})

\* df.dropna(): drop every row that has a missing value in any column.
dropna(d) == BoolIndex(d, {i \in 1..Len(d) : ~HasNa(d[i].row)})

\* df.duplicated(): a row is a duplicate when an earlier row equals it in
\* every column (the index is not compared).
duplicated(d) ==
    {i \in 1..Len(d) : \E j \in 1..(i - 1) : d[j].row = d[i].row}

\* drop_duplicates applied to adjacent rows only.
drop_duplicates_adjacent(d) ==
    BoolIndex(d, {i \in 1..Len(d) : i = 1 \/ d[i - 1].row # d[i].row})

\* df.drop_duplicates(): the first row of each group stays.
drop_duplicates(d) == BoolIndex(d, (1..Len(d)) \ duplicated(d))

\* The five range filters of step 5, one statement each.
SeverityInRange(r) ==
    Ge(r["severity_level"], 1) /\ Le(r["severity_level"], 10)
ResponseInRange(r) == Ge(r["response_time_hours"], 0)
PopulationInRange(r) == Ge(r["affected_population"], 0)
LossInRange(r) == Ge(r["estimated_economic_loss_usd"], 0)
DamageInRange(r) ==
    Ge(r["infrastructure_damage_index"], 0)
      /\ Le(r["infrastructure_damage_index"], 1 * IndexUnits)

Where(d, P(_)) == BoolIndex(d, {i \in 1..Len(d) : P(d[i].row)})

\* Step 5 without its last statement.
validate_ranges_no_damage(d) ==
    LET d1 == Where(d, SeverityInRange)
        d2 == Where(d1, ResponseInRange)
        d3 == Where(d2, PopulationInRange)
    IN  Where(d3, LossInRange)

\* Step 5: the five statements in the script's order.
validate_ranges(d) ==
    LET d1 == Where(d, SeverityInRange)
        d2 == Where(d1, ResponseInRange)
        d3 == Where(d2, PopulationInRange)
        d4 == Where(d3, LossInRange)
    IN  Where(d4, DamageInRange)

----------------------------------------------------------------------------
(* Steps 6-9: the four categorisations                                     *)

\* The severity bands with < in place of <=.
categorize_severity_strict(severity) ==
    IF Lt(severity, 3) THEN "Low"
    ELSE IF Lt(severity, 6) THEN "Medium"
    ELSE IF Lt(severity, 8) THEN "High"
    ELSE "Critical"

\* step 6, lines 55-63
categorize_severity(severity) ==
    IF Le(severity, 3) THEN "Low"
    ELSE IF Le(severity, 6) THEN "Medium"
    ELSE IF Le(severity, 8) THEN "High"
    ELSE "Critical"

\* The loss bands with <= in place of <.
categorize_economic_loss_inclusive(loss) ==
    IF Le(loss, 1000000) THEN "Minor (<$1M)"
    ELSE IF Le(loss, 10000000) THEN "Moderate ($1M-$10M)"
    ELSE IF Le(loss, 100000000) THEN "Severe ($10M-$100M)"
    ELSE "Catastrophic (>$100M)"

\* step 7, lines 69-77
categorize_economic_loss(loss) ==
    IF Lt(loss, 1000000) THEN "Minor (<$1M)"
    ELSE IF Lt(loss, 10000000) THEN "Moderate ($1M-$10M)"
    ELSE IF Lt(loss, 100000000) THEN "Severe ($10M-$100M)"
    ELSE "Catastrophic (>$100M)"

\* The response bands named without their ranges.
categorize_response_unlabelled(hours) ==
    IF Lt(hours, 6 * HourUnits) THEN "Immediate"
    ELSE IF Lt(hours, 24 * HourUnits) THEN "Fast"
    ELSE IF Lt(hours, 72 * HourUnits) THEN "Moderate"
    ELSE "Slow"

\* The response bands with <= in place of <.
categorize_response_inclusive(hours) ==
    IF Le(hours, 6 * HourUnits) THEN "Immediate (<6h)"
    ELSE IF Le(hours, 24 * HourUnits) THEN "Fast (6-24h)"
    ELSE IF Le(hours, 72 * HourUnits) THEN "Moderate (24-72h)"
    ELSE "Slow (>72h)"

\* step 8, lines 83-91
categorize_response(hours) ==
    IF Lt(hours, 6 * HourUnits) THEN "Immediate (<6h)"
    ELSE IF Lt(hours, 24 * HourUnits) THEN "Fast (6-24h)"
    ELSE IF Lt(hours, 72 * HourUnits) THEN "Moderate (24-72h)"
    ELSE "Slow (>72h)"

\* The population bands with <= in place of <.
categorize_population_inclusive(pop) ==
    IF Le(pop, 1000) THEN "Small (<1K)"
    ELSE IF Le(pop, 10000) THEN "Medium (1K-10K)"
    ELSE IF Le(pop, 100000) THEN "Large (10K-100K)"
    ELSE "Very Large (>100K)"

\* step 9, lines 97-105
categorize_population(pop) ==
    IF Lt(pop, 1000) THEN "Small (<1K)"
    ELSE IF Lt(pop, 10000) THEN "Medium (1K-10K)"
    ELSE IF Lt(pop, 100000) THEN "Large (10K-100K)"
    ELSE "Very Large (>100K)"

----------------------------------------------------------------------------
(* Raw input files                                                         *)

DateFormats == {"%Y-%m-%d", "%m/%d/%Y"}

\* The two events of the specification's end-to-end example.
EventA(fmt) ==
    [date                        |-> Cell(strftime(Date(2025, 1, 5), fmt)),
     disaster_type               |-> Cell("Flood"),
     location                    |-> Cell("Chile"),
     severity_level              |-> Cell(2),
     affected_population         |-> Cell(500),
     estimated_economic_loss_usd |-> Cell(500000),
     response_time_hours         |-> Cell(3 * HourUnits),
     infrastructure_damage_index |-> Cell(IndexUnits \div 2),
     aid_provided                |-> Cell("Food"),
     is_major_disaster           |-> Cell(0)]

EventB(fmt) ==
    [date                        |-> Cell(strftime(Date(2025, 6, 10), fmt)),
     disaster_type               |-> Cell("Earthquake"),
     location                    |-> Cell("Peru"),
     severity_level              |-> Cell(9),
     affected_population         |-> Cell(150000),
     estimated_economic_loss_usd |-> Cell(200000000),
     response_time_hours         |-> Cell(80 * HourUnits),
     infrastructure_damage_index |-> Cell(1 * IndexUnits),
     aid_provided                |-> Cell("Medical"),
     is_major_disaster           |-> Cell(1)]

\* Cells that make a row of the raw file defective in one column.
Defects ==
    {<<"date", NaN>>, <<"location", NaN>>, <<"severity_level", NaN>>,
     <<"severity_level", Cell(0)>>, <<"severity_level", Cell(11)>>,
     <<"response_time_hours", Cell(-1)>>,
     <<"affected_population", Cell(-1)>>,
     <<"estimated_economic_loss_usd", Cell(-1)>>,
     <<"infrastructure_damage_index", Cell(-1)>>,
     <<"infrastructure_damage_index", Cell(IndexUnits + 1)>>}

\* The rows a raw file is made of: the two events, and the first event
\* with one defective cell.
RawEvents(fmt) ==
    {EventA(fmt), EventB(fmt)}
      \cup {[EventA(fmt) EXCEPT ![x[1]] = x[2]] : x \in Defects}

SeqsUpTo(S, n) == UNION {[1..k -> S] : k \in 0..n}

RawFiles ==
    UNION {{File(rows) : rows \in SeqsUpTo(RawEvents(fmt), MaxRows)} :
             fmt \in DateFormats}

----------------------------------------------------------------------------
(* The script, one action per numbered step                                *)

\* No object id.
None == 0

NoLocals ==
    [df |-> None, filtered_df |-> None, work |-> None, stats |-> <<>>,
     metrics |-> <<>>, error |-> ""]

\* The dashboard process before its first script run.
DashboardNotStarted ==
    /\ cache = <<>>
    /\ reads = 0
    /\ heap = <<>>
    /\ next_id = 1
    /\ session_state = [filtered_df |-> None, original_df |-> None]
    /\ dpc = "idle"
    /\ page = ""
    /\ local = NoLocals
    /\ widgets = <<>>
    /\ runs = 0

Init ==
    /\ pc = "read_csv"
    /\ raw_csv \in RawFiles
    /\ df = <<>>
    /\ cleaned_csv = NoFile
    /\ stdout = <<>>
    /\ run = 1
    /\ first_csv = NoFile
    /\ DashboardNotStarted
    /\ events_csv = NoFile

\* line 6: df = pd.read_csv('synthetic_disaster_events_2025.csv'); the
\* script stops when there is no such file.
LoadRaw ==
    /\ pc = "read_csv"
    /\ IF raw_csv.exists
       THEN /\ df' = read_csv(raw_csv)
            /\ pc' = "step1"
       ELSE /\ pc' = "raised"          \* FileNotFoundError
            /\ UNCHANGED df
    /\ UNCHANGED <<raw_csv, cleaned_csv, stdout, run, first_csv>>
    /\ UNCHANGED dash_vars

convert_date(d) ==
    AssignColumn(d, "date", LAMBDA r : to_datetime(r["date"]))

\* step 1: df['date'] = pd.to_datetime(df['date']); the script stops on a
\* text that is not a date.
ConvertDate ==
    /\ pc = "step1"
    /\ IF \A i \in 1..Len(df) : parseable(df[i].row["date"])
       THEN /\ df' = convert_date(df)
            /\ pc' = "step2"
       ELSE /\ pc' = "raised"          \* ValueError
            /\ UNCHANGED df
    /\ UNCHANGED <<raw_csv, cleaned_csv, stdout, run, first_csv>>
    /\ UNCHANGED dash_vars

temporal_features(d) ==
    LET d1 == AssignColumn(d, "year", LAMBDA r : dt_year(r["date"]))
        d2 == AssignColumn(d1, "month", LAMBDA r : dt_month(r["date"]))
        d3 == AssignColumn(d2, "month_name",
                           LAMBDA r : dt_month_name(r["date"]))
        d4 == AssignColumn(d3, "quarter", LAMBDA r : dt_quarter(r["date"]))
        d5 == AssignColumn(d4, "day_of_week",
                           LAMBDA r : dt_day_name(r["date"]))
    IN  AssignColumn(d5, "week_of_year", LAMBDA r : dt_week(r["date"]))

\* step 2: the six temporal columns
TemporalFeatures ==
    /\ pc = "step2"
    /\ df' = temporal_features(df)
    /\ pc' = "step3"
    /\ UNCHANGED <<raw_csv, cleaned_csv, stdout, run, first_csv>>
    /\ UNCHANGED dash_vars

\* step 3: df = df.dropna(), and the number of rows removed is printed
HandleMissing ==
    /\ pc = "step3"
    /\ LET initial_rows == Len(df)
       IN  /\ df' = dropna(df)
           /\ stdout' = Append(stdout,
                               <<"Rows removed", initial_rows - Len(df')>>)
    /\ pc' = "step4"
    /\ UNCHANGED <<raw_csv, cleaned_csv, run, first_csv>>
    /\ UNCHANGED dash_vars

\* step 4: duplicates are counted, and dropped when there are any
RemoveDuplicates ==
    /\ pc = "step4"
    /\ LET duplicates == Cardinality(duplicated(df))
       IN  IF duplicates > 0
           THEN /\ df' = drop_duplicates(df)
                /\ stdout' = Append(stdout,
                                    <<"Duplicates removed", duplicates>>)
           ELSE /\ df' = df
                /\ stdout' = Append(stdout, <<"No duplicates found", 0>>)
    /\ pc' = "step5"
    /\ UNCHANGED <<raw_csv, cleaned_csv, run, first_csv>>
    /\ UNCHANGED dash_vars

\* step 5: the five range filters; nothing is printed about them
ValidateRanges ==
    /\ pc = "step5"
    /\ df' = validate_ranges(df)
    /\ pc' = "step6"
    /\ UNCHANGED <<raw_csv, cleaned_csv, stdout, run, first_csv>>
    /\ UNCHANGED dash_vars

\* step 6: df['severity_category'] = df['severity_level'].apply(...)
SeverityCategories ==
    /\ pc = "step6"
    /\ df' = AssignColumn(df, "severity_category",
               LAMBDA r : Cell(categorize_severity(r["severity_level"])))
    /\ pc' = "step7"
    /\ UNCHANGED <<raw_csv, cleaned_csv, stdout, run, first_csv>>
    /\ UNCHANGED dash_vars

\* step 7
EconomicCategories ==
    /\ pc = "step7"
    /\ df' = AssignColumn(df, "economic_impact_category",
               LAMBDA r : Cell(categorize_economic_loss(
                                 r["estimated_economic_loss_usd"])))
    /\ pc' = "step8"
    /\ UNCHANGED <<raw_csv, cleaned_csv, stdout, run, first_csv>>
    /\ UNCHANGED dash_vars

\* step 8
ResponseCategories ==
    /\ pc = "step8"
    /\ df' = AssignColumn(df, "response_category",
               LAMBDA r : Cell(categorize_response(r["response_time_hours"])))
    /\ pc' = "step9"
    /\ UNCHANGED <<raw_csv, cleaned_csv, stdout, run, first_csv>>
    /\ UNCHANGED dash_vars

\* step 9
PopulationCategories ==
    /\ pc = "step9"
    /\ df' = AssignColumn(df, "population_impact_category",
               LAMBDA r : Cell(categorize_population(
                                 r["affected_population"])))
    /\ pc' = "step10"
    /\ UNCHANGED <<raw_csv, cleaned_csv, stdout, run, first_csv>>
    /\ UNCHANGED dash_vars

\* step 10: df.to_csv('disaster_events_cleaned.csv', index=False), then the
\* summary with the number of events
SaveCleaned ==
    /\ pc = "step10"
    /\ cleaned_csv' = to_csv(df)
    /\ stdout' = Append(stdout, <<"Total events", Len(df)>>)
    /\ pc' = "done"
    /\ UNCHANGED <<raw_csv, df, run, first_csv>>
    /\ UNCHANGED dash_vars

\* The script is run again on what it wrote, without the derived columns.
Reclean ==
    /\ pc = "done"
    /\ run = 1
    /\ raw_csv' = BaseProjection(cleaned_csv)
    /\ first_csv' = cleaned_csv
    /\ run' = 2
    /\ df' = <<>>
    /\ stdout' = <<>>
    /\ pc' = "read_csv"
    /\ UNCHANGED cleaned_csv
    /\ UNCHANGED dash_vars

Next ==
    \/ LoadRaw
    \/ ConvertDate
    \/ TemporalFeatures
    \/ HandleMissing
    \/ RemoveDuplicates
    \/ ValidateRanges
    \/ SeverityCategories
    \/ EconomicCategories
    \/ ResponseCategories
    \/ PopulationCategories
    \/ SaveCleaned
    \/ Reclean

Spec == Init /\ [][Next]_vars

----------------------------------------------------------------------------
(* The script on one-row raw files whose four continuous values sit on     *)
(* and around the thresholds of the categorisations.                       *)

SeverityLevels == 1..10

LossValues ==
    {0, 999999, 1000000, 9999999, 10000000, 99999999, 100000000, 200000000}

ResponseValues ==
    {0, 6 * HourUnits - 1, 6 * HourUnits, 24 * HourUnits - 1, 24 * HourUnits,
     72 * HourUnits - 1, 72 * HourUnits, 80 * HourUnits}

PopulationValues == {0, 999, 1000, 9999, 10000, 99999, 100000, 150000}

ThresholdEvents ==
    {[EventA("%Y-%m-%d") EXCEPT
         !["severity_level"] = Cell(s),
         !["estimated_economic_loss_usd"] = Cell(l),
         !["response_time_hours"] = Cell(h),
         !["affected_population"] = Cell(p)] :
       s \in SeverityLevels, l \in LossValues,
       h \in ResponseValues, p \in PopulationValues}

InitCat ==
    /\ pc = "read_csv"
    /\ raw_csv \in {File(<<e>>) : e \in ThresholdEvents}
    /\ df = <<>>
    /\ cleaned_csv = NoFile
    /\ stdout = <<>>
    /\ run = 1
    /\ first_csv = NoFile
    /\ DashboardNotStarted
    /\ events_csv = NoFile

SpecCat == InitCat /\ [][Next]_vars

----------------------------------------------------------------------------
(* Properties                                                              *)

\* The rows of the cleaned file, once the script has written it.
Persisted == cleaned_csv.rows

Written == pc = "done"

\* The frame rows that carry column col.
RowsWith(col) == {i \in 1..Len(df) : col \in DOMAIN df[i].row}

\* C1: every row of the table the Cleaner persists satisfies the five range
\* invariants: 1 <= severity_level <= 10, response_time_hours >= 0,
\* affected_population >= 0, estimated_economic_loss_usd >= 0 and
\* 0 <= infrastructure_damage_index <= 1.
C1_RangeInvariants ==
    \A i \in 1..Len(Persisted) :
        LET r == Persisted[i]
        IN  /\ ~isna(r["severity_level"])
            /\ Val(r["severity_level"]) \in 1..10
            /\ ~isna(r["response_time_hours"])
            /\ Val(r["response_time_hours"]) >= 0
            /\ ~isna(r["affected_population"])
            /\ Val(r["affected_population"]) >= 0
            /\ ~isna(r["estimated_economic_loss_usd"])
            /\ Val(r["estimated_economic_loss_usd"]) >= 0
            /\ ~isna(r["infrastructure_damage_index"])
            /\ Val(r["infrastructure_damage_index"]) \in 0..IndexUnits

\* A raw file of three rows, one with an index above 1, one with a negative
\* loss, was cleaned and one row was written.
C1_Witness ==
    /\ Written /\ run = 1
    /\ Len(raw_csv.rows) = 3
    /\ \E i \in 1..3 :
          raw_csv.rows[i]["infrastructure_damage_index"] = Cell(IndexUnits + 1)
    /\ \E i \in 1..3 :
          raw_csv.rows[i]["estimated_economic_loss_usd"] = Cell(-1)
    /\ Len(Persisted) = 1

\* The band of each severity level, as the specification tabulates it.
SeverityTable ==
    <<"Low", "Low", "Low", "Medium", "Medium", "Medium", "High", "High",
      "Critical", "Critical">>

\* C2: severity_category is assigned from severity_level with inclusive
\* upper bounds: <= 3 Low, 4..6 Medium, 7..8 High, 9 or more Critical, for
\* every level 1..10.
C2_SeverityBands ==
    \A i \in RowsWith("severity_category") :
        LET r == df[i].row
        IN  /\ Val(r["severity_level"]) \in 1..10
            /\ r["severity_category"]
                 = Cell(SeverityTable[Val(r["severity_level"])])

\* Level 6, the upper edge of Medium, has been categorised.
C2_Witness ==
    \E i \in RowsWith("severity_category") :
        /\ df[i].row["severity_level"] = Cell(6)
        /\ df[i].row["severity_category"] = Cell("Medium")

\* The position (1..4) of a value among three strict upper thresholds.
StrictBand(v, t1, t2, t3) ==
    IF v < t1 THEN 1 ELSE IF v < t2 THEN 2 ELSE IF v < t3 THEN 3 ELSE 4

C5_PopulationBands ==
    \A i \in RowsWith("population_impact_category") :
        LET r == df[i].row
            p == Val(r["affected_population"])
            c == Val(r["population_impact_category"])
        IN  /\ (p < 1000) <=> (c = "Small (<1K)")
            /\ (1000 <= p /\ p < 10000) <=> (c = "Medium (1K-10K)")
            /\ (10000 <= p /\ p < 100000) <=> (c = "Large (10K-100K)")
            /\ (100000 <= p) <=> (c = "Very Large (>100K)")

\* A population of exactly 1000 has been categorised Medium.
C5_Witness ==
    \E i \in RowsWith("population_impact_category") :
        /\ df[i].row["affected_population"] = Cell(1000)
        /\ df[i].row["population_impact_category"] = Cell("Medium (1K-10K)")

\* C6 as stated: the stored value of each derived categorical field is one
\* of the four bare band names (Minor, Moderate, ...; Immediate, Fast, ...;
\* Small, Medium, ...).
C6_BareBandNames ==
    \A i \in 1..Len(Persisted) :
        LET r == Persisted[i]
        IN  /\ Val(r["severity_category"])
                 \in {"Low", "Medium", "High", "Critical"}
            /\ Val(r["economic_impact_category"])
                 \in {"Minor", "Moderate", "Severe", "Catastrophic"}
            /\ Val(r["response_category"])
                 \in {"Immediate", "Fast", "Moderate", "Slow"}
            /\ Val(r["population_impact_category"])
                 \in {"Small", "Medium", "Large", "Very Large"}

\* C6 (amended): in every persisted row severity_category is one of Low,
\* Medium, High, Critical, and each of the other three derived categorical
\* fields holds one of four labels made of the band name followed by its
\* range in parentheses: "Minor (<$1M)", "Immediate (<6h)", "Small (<1K)",
\* and so on.
C6_StoredLabels ==
    \A i \in 1..Len(Persisted) :
        LET r == Persisted[i]
        IN  /\ Val(r["severity_category"])
                 \in {"Low", "Medium", "High", "Critical"}
            /\ Val(r["economic_impact_category"])
                 \in {"Minor (<$1M)", "Moderate ($1M-$10M)",
                      "Severe ($10M-$100M)", "Catastrophic (>$100M)"}
            /\ Val(r["response_category"])
                 \in {"Immediate (<6h)", "Fast (6-24h)", "Moderate (24-72h)",
                      "Slow (>72h)"}
            /\ Val(r["population_impact_category"])
                 \in {"Small (<1K)", "Medium (1K-10K)", "Large (10K-100K)",
                      "Very Large (>100K)"}

\* A row has been written whose response band is the third one.
C6_Witness ==
    /\ Written
    /\ Len(Persisted) = 1
    /\ Persisted[1]["response_category"] = Cell("Moderate (24-72h)")
    /\ Persisted[1]["population_impact_category"] = Cell("Large (10K-100K)")

\* The base fields of a row of a CSV file, the date read as a calendar date.
BaseRecord(r) ==
    [c \in BaseColumns |-> IF c = "date" THEN to_datetime(r[c]) ELSE r[c]]

Complete(r) == \A c \in DOMAIN r : r[c] # <<>>

WithinRanges(r) ==
    /\ Val(r["severity_level"]) \in 1..10
    /\ Val(r["response_time_hours"]) >= 0
    /\ Val(r["affected_population"]) >= 0
    /\ Val(r["estimated_economic_loss_usd"]) >= 0
    /\ Val(r["infrastructure_damage_index"]) \in 0..IndexUnits

NoTwoEqual(rows) ==
    \A i, j \in 1..Len(rows) : rows[i] = rows[j] => i = j

\* Raw row k has an exact duplicate in the raw file.
InDuplicateGroup(k) ==
    \E j \in 1..Len(raw_csv.rows) :
        j # k /\ raw_csv.rows[j] = raw_csv.rows[k]

\* The persisted rows that come from the raw rows equal to raw row k.
Survivors(k) ==
    {i \in 1..Len(Persisted) :
        BaseRecord(Persisted[i]) = BaseRecord(raw_csv.rows[k])}

\* C7 as stated: the persisted table has no two equal rows, and of each
\* group of exact duplicates in the raw input exactly one row survives.
C7_ExactlyOneSurvives ==
    Written =>
        /\ NoTwoEqual(Persisted)
        /\ \A k \in 1..Len(raw_csv.rows) :
              InDuplicateGroup(k) => Cardinality(Survivors(k)) = 1

\* C7 (amended): the persisted table has no two equal rows; of each group
\* of exact duplicates in the raw input exactly one row survives when the
\* row has no missing value and meets the range invariants, and none
\* survives otherwise.
C7_AtMostOneSurvives ==
    Written =>
        /\ NoTwoEqual(Persisted)
        /\ \A k \in 1..Len(raw_csv.rows) :
              InDuplicateGroup(k) =>
                  Cardinality(Survivors(k)) =
                      IF Complete(raw_csv.rows[k])
                           /\ WithinRanges(raw_csv.rows[k])
                      THEN 1 ELSE 0

\* Three raw rows, the third a duplicate of the second, gave two rows.
C7_Witness ==
    /\ Written /\ run = 1
    /\ Len(raw_csv.rows) = 3
    /\ raw_csv.rows[3] = raw_csv.rows[2]
    /\ raw_csv.rows[1] # raw_csv.rows[2]
    /\ Len(Persisted) = 2

\* C8: every raw record with a missing value in any field is dropped and
\* nothing is imputed: no persisted row has a missing value in any base or
\* derived field, and no raw row with a missing field is in the output.
C8_NoMissingValues ==
    Written =>
        /\ \A i \in 1..Len(Persisted) :
              /\ DOMAIN Persisted[i]
                   = BaseColumns \cup TemporalColumns \cup CategoryColumns
              /\ \A c \in DOMAIN Persisted[i] : Persisted[i][c] # <<>>
        /\ Len(Persisted) = Len(df)
        /\ \A k \in 1..Len(raw_csv.rows) :
              ~Complete(raw_csv.rows[k])
                 => \A i \in 1..Len(df) : df[i].index # k - 1
        /\ Len(Persisted)
             <= Cardinality({k \in 1..Len(raw_csv.rows) :
                               Complete(raw_csv.rows[k])})

\* A raw file with a row without location and a row without date was
\* cleaned, and its one complete row was written.
C8_Witness ==
    /\ Written /\ run = 1
    /\ Len(raw_csv.rows) = 3
    /\ \E k \in 1..3 : raw_csv.rows[k]["location"] = <<>>
    /\ \E k \in 1..3 : raw_csv.rows[k]["date"] = <<>>
    /\ Len(Persisted) = 1

RECURSIVE IsSubsequence(_, _)
IsSubsequence(s, t) ==
    IF s = <<>> THEN TRUE
    ELSE IF t = <<>> THEN FALSE
    ELSE IF Head(s) = Head(t) THEN IsSubsequence(Tail(s), Tail(t))
    ELSE IsSubsequence(s, Tail(t))

\* C9: the persisted table, restricted to the base fields, is a subsequence
\* of the raw input in its original order, every base field value of a
\* surviving row unchanged (the date compared as a calendar date).
C9_SubsequenceOfRaw ==
    Written =>
        IsSubsequence(
            [i \in 1..Len(Persisted) |-> BaseRecord(Persisted[i])],
            [k \in 1..Len(raw_csv.rows) |-> BaseRecord(raw_csv.rows[k])])

\* The raw rows were the second event, a row of severity 11 and the first
\* event, dated month/day/year; the two events were written.
C9_Witness ==
    /\ Written /\ run = 1
    /\ Len(raw_csv.rows) = 3
    /\ raw_csv.rows[1]["severity_level"] = Cell(9)
    /\ raw_csv.rows[2]["severity_level"] = Cell(11)
    /\ raw_csv.rows[3]["severity_level"] = Cell(2)
    /\ raw_csv.rows[3]["date"] = Cell(<<1, 5, 2025>>)
    /\ Len(Persisted) = 2

RowSet(file) == {file.rows[i] : i \in 1..Len(file.rows)}

\* C10: running the Cleaner on the base-field projection of its own output
\* yields the same set of rows, with the same derived values, as the first
\* run.
C10_Idempotent ==
    (Written /\ run = 2) => RowSet(cleaned_csv) = RowSet(first_csv)

\* The second run has written two rows.
C10_Witness ==
    /\ Written /\ run = 2
    /\ Len(first_csv.rows) = 2
    /\ Len(Persisted) = 2

----------------------------------------------------------------------------
(* The dashboard: disaster_events.csv                                      *)

\* How many script runs one dashboard process is followed for.
MaxRuns == 2

\* A third event: the second one's place, day and size, the first one's
\* kind, aid and rank.
EventC(fmt) ==
    [EventB(fmt) EXCEPT !["disaster_type"]     = Cell("Flood"),
                        !["aid_provided"]      = Cell("Food"),
                        !["is_major_disaster"] = Cell(0)]

\* The line of the data file for one event: its ten base columns, and the
\* ten columns the cleaning steps 2 and 6-9 derive from them.
CleanedRow(e) ==
    LET dt == to_datetime(e["date"])
    IN  [c \in BaseColumns \cup TemporalColumns \cup CategoryColumns |->
            CASE c = "date" -> Cell(strftime(Val(dt), "%Y-%m-%d"))
              [] c = "year" -> dt_year(dt)
              [] c = "month" -> dt_month(dt)
              [] c = "month_name" -> dt_month_name(dt)
              [] c = "quarter" -> dt_quarter(dt)
              [] c = "day_of_week" -> dt_day_name(dt)
              [] c = "week_of_year" -> dt_week(dt)
              [] c = "severity_category" ->
                    Cell(categorize_severity(e["severity_level"]))
              [] c = "economic_impact_category" ->
                    Cell(categorize_economic_loss(
                           e["estimated_economic_loss_usd"]))
              [] c = "response_category" ->
                    Cell(categorize_response(e["response_time_hours"]))
              [] c = "population_impact_category" ->
                    Cell(categorize_population(e["affected_population"]))
              [] OTHER -> e[c]]

DashboardEvents ==
    {CleanedRow(EventA("%Y-%m-%d")), CleanedRow(EventB("%Y-%m-%d")),
     CleanedRow(EventC("%Y-%m-%d"))}

IsInjective(q) == \A i, j \in DOMAIN q : q[i] = q[j] => i = j

\* The data files the dashboard is started on: no file, a file with only
\* its header line, and files of distinct events in any order.
DashboardFiles ==
    {NoFile}
      \cup {File(rows) : rows \in {q \in SeqsUpTo(DashboardEvents, MaxRows) :
                                     IsInjective(q)}}

----------------------------------------------------------------------------
(* utils/data_loader.py: load_data                                         *)

\* lines 10-12: the body of load_data
load_data_body(file) == convert_date(read_csv(file))

\* load_data without its decorator: every call runs the body.
load_data_uncached(entry, file) ==
    IF ~file.exists
    THEN [raised |-> TRUE, value |-> <<>>, entry |-> entry, read |-> 0]
    ELSE [raised |-> FALSE, value |-> load_data_body(file),
          entry |-> entry, read |-> 1]

\* @st.cache_data load_data(): the body runs when there is no entry, its
\* result is stored, and every call is handed a new copy of the stored value.
\* A call whose body raises stores nothing.
load_data(entry, file) ==
    IF entry # <<>>
    THEN [raised |-> FALSE, value |-> entry[1], entry |-> entry, read |-> 0]
    ELSE IF ~file.exists
    THEN [raised |-> TRUE, value |-> <<>>, entry |-> entry, read |-> 0]
    ELSE [raised |-> FALSE, value |-> load_data_body(file),
          entry |-> <<load_data_body(file)>>, read |-> 1]

----------------------------------------------------------------------------
(* utils/data_loader.py: apply_filters                                     *)

\* Series.unique(), as a set (the files here have no missing cell).
unique(d, col) ==
    {Val(d[i].row[col]) :
       i \in {j \in 1..Len(d) : ~isna(d[j].row[col])}}

\* An isin for which an empty selection selects everything.
isin_or_empty(c, values) == values = {} \/ (~isna(c) /\ Val(c) \in values)

\* Series.isin(values): NaN is in no selection.
isin(c, values) == ~isna(c) /\ Val(c) \in values

\* date >= t and date <= t on timestamps; False when either side is missing.
date_ge(c, t) == ~isna(c) /\ ~isna(t) /\ Ordinal(Val(c)) >= Ordinal(Val(t))
date_le(c, t) == ~isna(c) /\ ~isna(t) /\ Ordinal(Val(c)) <= Ordinal(Val(t))

\* line 40: value_counts().head(20): the 20 most frequent locations, all of
\* them when there are no more than 20.
top_locations(d) ==
    LET locs == unique(d, "location")
        count(l) == Cardinality({i \in 1..Len(d) :
                                   d[i].row["location"] = Cell(l)})
    IN  IF Cardinality(locs) <= 20 THEN locs
        ELSE CHOOSE T \in SUBSET locs :
               /\ Cardinality(T) = 20
               /\ \A a \in T, b \in locs \ T : count(a) >= count(b)

SeverityOptions == {"Low", "Medium", "High", "Critical"}

\* lines 18-55: the widgets as they come up on a first run.
DefaultConfig(d) ==
    LET dates == {d[i].row["date"] : i \in 1..Len(d)}
        first == CHOOSE a \in dates : \A b \in dates : date_le(a, b)
        last  == CHOOSE a \in dates : \A b \in dates : date_ge(a, b)
    IN  [date_range      |-> IF d = <<>> THEN <<NaN, NaN>>
                             ELSE <<first, last>>,
         disaster_types  |-> unique(d, "disaster_type"),
         severity_filter |-> unique(d, "severity_category"),
         location_filter |-> {"All"},
         major_only      |-> FALSE,
         aid_types       |-> unique(d, "aid_provided")]

\* The values date_input can hand back: a range inside the data's dates, or
\* a tuple with only the start while the user is choosing the end; on data
\* without dates, nothing or the missing bounds.
DateRanges(d) ==
    LET dates == {d[i].row["date"] : i \in 1..Len(d)}
    IN  IF d = <<>> THEN {<<>>, <<NaN, NaN>>}
        ELSE {r \in dates \X dates : date_le(r[1], r[2])}
               \cup {<<a>> : a \in dates}

\* Every state the widgets of lines 18-55 can be in on the dataset d.
Configs(d) ==
    [date_range      : DateRanges(d),
     disaster_types  : SUBSET unique(d, "disaster_type"),
     severity_filter : (SUBSET unique(d, "severity_category"))
                         \cup {SeverityOptions},
     location_filter : SUBSET ({"All"} \cup top_locations(d)),
     major_only      : BOOLEAN,
     aid_types       : SUBSET unique(d, "aid_provided")]

\* The widgets untouched, the checkbox ticked, or the end date not chosen yet.
QuickConfigs(d) ==
    {DefaultConfig(d), [DefaultConfig(d) EXCEPT !.major_only = TRUE]}
      \cup {[DefaultConfig(d) EXCEPT !.date_range = r] :
              r \in {x \in DateRanges(d) : Len(x) < 2}}

\* The combined mask with the end date excluded.
combined_mask_open_end(d, w) ==
    {i \in 1..Len(d) :
        /\ date_ge(d[i].row["date"], w.date_range[1])
        /\ date_le(d[i].row["date"], w.date_range[2])
        /\ d[i].row["date"] # w.date_range[2]
        /\ isin(d[i].row["disaster_type"], w.disaster_types)
        /\ isin(d[i].row["severity_category"], w.severity_filter)
        /\ isin(d[i].row["aid_provided"], w.aid_types)}

\* The combined mask laid one position off: a row is kept when the row
\* before it passes.
combined_mask_shifted(d, w) ==
    {i \in 2..Len(d) :
        /\ date_ge(d[i - 1].row["date"], w.date_range[1])
        /\ date_le(d[i - 1].row["date"], w.date_range[2])
        /\ isin(d[i - 1].row["disaster_type"], w.disaster_types)
        /\ isin(d[i - 1].row["severity_category"], w.severity_filter)
        /\ isin(d[i - 1].row["aid_provided"], w.aid_types)}

\* Every widget either untouched or narrowed to a single value: one day,
\* one type, one band, one aid type, one location.
NarrowedConfigs(d) ==
    LET w0 == DefaultConfig(d)
        one(S) == {{x} : x \in S}
    IN  IF d = <<>> THEN {w0}
        ELSE [date_range      : {w0.date_range}
                                  \cup {<<a, a>> : a \in {d[i].row["date"] :
                                                             i \in 1..Len(d)}},
              disaster_types  : {w0.disaster_types} \cup one(w0.disaster_types),
              severity_filter : {w0.severity_filter}
                                  \cup one(w0.severity_filter),
              location_filter : {w0.location_filter} \cup one(top_locations(d)),
              major_only      : BOOLEAN,
              aid_types       : {w0.aid_types} \cup one(w0.aid_types)]

\* lines 58-64: the combined mask, as the positions it selects.
combined_mask(d, w) ==
    {i \in 1..Len(d) :
        /\ date_ge(d[i].row["date"], w.date_range[1])
        /\ date_le(d[i].row["date"], w.date_range[2])
        /\ isin(d[i].row["disaster_type"], w.disaster_types)
        /\ isin(d[i].row["severity_category"], w.severity_filter)
        /\ isin(d[i].row["aid_provided"], w.aid_types)}

\* line 66 as "if location_filter": 'All' is a location like any other.
location_active_nonempty(w) == w.location_filter # {}

\* line 66 as "any location other than 'All' is selected".
location_active_specific(w) == w.location_filter \ {"All"} # {}

\* line 66: if 'All' not in location_filter and location_filter
location_active(w) ==
    "All" \notin w.location_filter /\ w.location_filter # {}

\* The location and major-only masks are computed on the whole dataset and
\* laid on the smaller frames by position.
filter_rows_positional(d, w) ==
    LET f1 == BoolIndex(d, combined_mask(d, w))
        f2 == IF location_active(w)
              THEN BoolIndex(f1, {i \in 1..Len(d) :
                                    isin(d[i].row["location"],
                                         w.location_filter)})
              ELSE f1
    IN  IF w.major_only
        THEN BoolIndex(f2, {i \in 1..Len(d) :
                              d[i].row["is_major_disaster"] = Cell(1)})
        ELSE f2

\* The filter of streamlit-dashboard.py without its severity condition.
dashboard_filter_no_severity(d, w) ==
    LET f1 == BoolIndex(d, {i \in 1..Len(d) :
                  /\ date_ge(d[i].row["date"], w.date_range[1])
                  /\ date_le(d[i].row["date"], w.date_range[2])
                  /\ isin(d[i].row["disaster_type"], w.disaster_types)})
    IN  IF w.major_only
        THEN BoolIndex(f1, {i \in 1..Len(f1) :
                              f1[i].row["is_major_disaster"] = Cell(1)})
        ELSE f1

\* streamlit-dashboard.py lines 103-111: the mask of date, type and severity
\* band, then the major-only stage.
dashboard_filter(d, w) ==
    LET f1 == BoolIndex(d, {i \in 1..Len(d) :
                  /\ date_ge(d[i].row["date"], w.date_range[1])
                  /\ date_le(d[i].row["date"], w.date_range[2])
                  /\ isin(d[i].row["disaster_type"], w.disaster_types)
                  /\ isin(d[i].row["severity_category"],
                          w.severity_filter)})
    IN  IF w.major_only
        THEN BoolIndex(f1, {i \in 1..Len(f1) :
                              f1[i].row["is_major_disaster"] = Cell(1)})
        ELSE f1

\* lines 58-70: the mask, then the location stage, then the major-only stage.
filter_rows(d, w) ==
    LET f1 == BoolIndex(d, combined_mask(d, w))
        f2 == IF location_active(w)
              THEN BoolIndex(f1, {i \in 1..Len(f1) :
                                    isin(f1[i].row["location"],
                                         w.location_filter)})
              ELSE f1
    IN  IF w.major_only
        THEN BoolIndex(f2, {i \in 1..Len(f2) :
                              f2[i].row["is_major_disaster"] = Cell(1)})
        ELSE f2

----------------------------------------------------------------------------
(* utils/data_loader.py: get_summary_stats                                 *)

\* The values of one column, in row order.
column(d, col) == [i \in 1..Len(d) |-> Val(d[i].row[col])]

\* Series.sum(): 0 for an empty series.
RECURSIVE series_sum(_)
series_sum(q) == IF q = <<>> THEN 0 ELSE Head(q) + series_sum(Tail(q))

\* A quotient num/den, kept as its two terms.
Ratio(num, den) == [num |-> num, den |-> den]

\* Series.mean(): NaN for an empty series.
series_mean(q) ==
    IF q = <<>> THEN NaN ELSE Cell(Ratio(series_sum(q), Len(q)))

RECURSIVE insert_sorted(_, _)
insert_sorted(q, x) ==
    IF q = <<>> THEN <<x>>
    ELSE IF x <= Head(q) THEN <<x>> \o q
    ELSE <<Head(q)>> \o insert_sorted(Tail(q), x)

RECURSIVE sort_values(_)
sort_values(q) ==
    IF q = <<>> THEN <<>> ELSE insert_sorted(sort_values(Tail(q)), Head(q))

\* A median that takes the upper of two middle values.
series_median_upper(q) ==
    LET v == sort_values(q)
        n == Len(q)
    IN  IF n = 0 THEN NaN ELSE Cell(Ratio(v[(n \div 2) + 1], 1))

\* Series.median(): the middle value, or the mean of the two middle values.
series_median(q) ==
    LET v == sort_values(q)
        n == Len(q)
    IN  IF n = 0 THEN NaN
        ELSE IF n % 2 = 1 THEN Cell(Ratio(v[(n + 1) \div 2], 1))
        ELSE Cell(Ratio(v[n \div 2] + v[(n \div 2) + 1], 2))

\* Series.nunique()
nunique(d, col) == Cardinality(unique(d, col))

\* A date span that is 0 for an empty frame.
date_range_days_zero(d) ==
    LET days == {Ordinal(Val(d[i].row["date"])) : i \in 1..Len(d)}
        max == CHOOSE a \in days : \A b \in days : a >= b
        min == CHOOSE a \in days : \A b \in days : a <= b
    IN  IF d = <<>> THEN Cell(0) ELSE Cell(max - min)

\* (df['date'].max() - df['date'].min()).days: NaN for an empty frame.
date_range_days(d) ==
    LET days == {Ordinal(Val(d[i].row["date"])) : i \in 1..Len(d)}
        max == CHOOSE a \in days : \A b \in days : a >= b
        min == CHOOSE a \in days : \A b \in days : a <= b
    IN  IF d = <<>> THEN NaN ELSE Cell(max - min)

\* lines 89-101: what each key of the mapping is computed from.
SummaryMetrics ==
    [total_events              |-> <<"count", "rows">>,
     major_disasters           |-> <<"count", "is_major_disaster">>,
     total_affected            |-> <<"sum", "affected_population">>,
     avg_affected              |-> <<"mean", "affected_population">>,
     total_economic_loss       |-> <<"sum", "estimated_economic_loss_usd">>,
     avg_economic_loss         |-> <<"mean", "estimated_economic_loss_usd">>,
     avg_response_time         |-> <<"mean", "response_time_hours">>,
     median_response_time      |-> <<"median", "response_time_hours">>,
     avg_severity              |-> <<"mean", "severity_level">>,
     avg_infrastructure_damage |-> <<"mean", "infrastructure_damage_index">>,
     unique_locations          |-> <<"nunique", "location">>,
     unique_disaster_types     |-> <<"nunique", "disaster_type">>,
     date_range_days           |-> <<"span", "date">>]

\* lines 87-103: the mapping get_summary_stats returns (hours in 1/HourUnits,
\* the damage index in 1/IndexUnits).
get_summary_stats(d) ==
    [total_events |-> Cell(Len(d)),
     major_disasters |->
        Cell(Len(BoolIndex(d, {i \in 1..Len(d) :
                                 d[i].row["is_major_disaster"] = Cell(1)}))),
     total_affected |-> Cell(series_sum(column(d, "affected_population"))),
     avg_affected |-> series_mean(column(d, "affected_population")),
     total_economic_loss |->
        Cell(series_sum(column(d, "estimated_economic_loss_usd"))),
     avg_economic_loss |->
        series_mean(column(d, "estimated_economic_loss_usd")),
     avg_response_time |-> series_mean(column(d, "response_time_hours")),
     median_response_time |->
        series_median(column(d, "response_time_hours")),
     avg_severity |-> series_mean(column(d, "severity_level")),
     avg_infrastructure_damage |->
        series_mean(column(d, "infrastructure_damage_index")),
     unique_locations |-> Cell(nunique(d, "location")),
     unique_disaster_types |-> Cell(nunique(d, "disaster_type")),
     date_range_days |-> date_range_days(d)]

----------------------------------------------------------------------------
(* Page computations that add columns                                      *)

\* Series.quantile(0.95), linear interpolation, in twentieths.
quantile_95(q) ==
    LET v == sort_values(q)
        n == Len(q)
        lo == (19 * (n - 1)) \div 20
        frac == (19 * (n - 1)) % 20
    IN  IF frac = 0 THEN 20 * v[lo + 1]
        ELSE 20 * v[lo + 1] + frac * (v[lo + 2] - v[lo + 1])

\* pages/4 line 96: affected_population clipped at its 95th percentile.
map_size(d) ==
    LET upper == quantile_95(column(d, "affected_population"))
    IN  AssignColumn(d, "size",
          LAMBDA r : LET x == 20 * Val(r["affected_population"])
                     IN  Cell(Ratio(IF x > upper THEN upper ELSE x, 20)))

\* pages/6 lines 415-420: the three efficiency columns; a division by a
\* zero maximum gives NaN.
efficiency_columns(d) ==
    LET hours == column(d, "response_time_hours")
        max_response == CHOOSE a \in {hours[i] : i \in 1..Len(hours)} :
                          \A i \in 1..Len(hours) : a >= hours[i]
        d1 == AssignColumn(d, "response_score",
                LAMBDA r :
                  IF max_response = 0 THEN NaN
                  ELSE Cell(Ratio(
                         100 * (max_response - Val(r["response_time_hours"])),
                         max_response)))
        d2 == AssignColumn(d1, "severity_weight",
                LAMBDA r : Cell(Ratio(Val(r["severity_level"]), 10)))
    IN  AssignColumn(d2, "efficiency_score",
          LAMBDA r :
            IF isna(r["response_score"]) THEN NaN
            ELSE Cell(Ratio(Val(r["response_score"]).num
                              * (10 + Val(r["severity_level"])),
                            Val(r["response_score"]).den * 10)))

----------------------------------------------------------------------------
(* One script run of a page                                                *)

Pages == {"Overview", "Geographic", "Response"}

\* The object with the next id comes to hold the frame f.
Allocate(f) ==
    /\ heap' = heap @@ (next_id :> f)
    /\ next_id' = next_id + 1

\* The script stops with an exception: the page shows the error.
Raise(name) ==
    /\ dpc' = "raised"
    /\ local' = [local EXCEPT !.error = name]

\* The user opens the page p of a dashboard that has just been started.
OpenPage(p) ==
    /\ dpc = "idle"
    /\ page' = p
    /\ runs' = runs + 1
    /\ dpc' = "load"
    /\ UNCHANGED <<events_csv, cache, reads, heap, next_id, session_state,
                   local, widgets>>
    /\ UNCHANGED cleaner_vars

Open == \E p \in Pages : OpenPage(p)

OpenOverview == OpenPage("Overview")

\* A widget is touched or another page is chosen: the script runs again from
\* its top. The last run's variables are gone; what st.session_state refers
\* to stays alive.
Rerun ==
    /\ dpc \in {"done", "raised"}
    /\ runs < MaxRuns
    /\ \E p \in Pages : page' = p
    /\ runs' = runs + 1
    /\ local' = NoLocals
    /\ heap' = [i \in (DOMAIN heap)
                        \cap {session_state.filtered_df,
                              session_state.original_df} |-> heap[i]]
    /\ dpc' = "load"
    /\ UNCHANGED <<events_csv, cache, reads, next_id, session_state, widgets>>
    /\ UNCHANGED cleaner_vars

\* df = load_data()
LoadData ==
    /\ dpc = "load"
    /\ LET call == load_data(cache, events_csv)
       IN  /\ cache' = call.entry
           /\ reads' = reads + call.read
           /\ IF call.raised
              THEN /\ Raise("FileNotFoundError")
                   /\ UNCHANGED <<heap, next_id>>
              ELSE /\ Allocate(call.value)
                   /\ local' = [local EXCEPT !.df = next_id]
                   /\ dpc' = "filter"
    /\ UNCHANGED <<events_csv, session_state, page, widgets, runs>>
    /\ UNCHANGED cleaner_vars

\* filtered_df = apply_filters(df), lines 14-85, with the widgets at w.
\* A date range of fewer than two dates raises at line 59, before anything
\* is stored. On a dataset without rows the call does not return: either
\* a widget refuses the missing bounds, or line 81 divides by zero after
\* the two frames were stored.
apply_filters(w) ==
    /\ dpc = "filter"
    /\ widgets' = <<w>>
    /\ LET d == heap[local.df]
       IN  IF Len(w.date_range) < 2
           THEN /\ Raise(IF d = <<>> THEN "StreamlitAPIException"
                         ELSE "IndexError")
                /\ UNCHANGED <<heap, next_id, session_state>>
           ELSE /\ Allocate(filter_rows(d, w))
                /\ session_state' = [filtered_df |-> next_id,
                                     original_df |-> local.df]
                /\ IF d = <<>>
                   THEN Raise("ZeroDivisionError")
                   ELSE /\ local' = [local EXCEPT !.filtered_df = next_id]
                        /\ dpc' = "page"
    /\ UNCHANGED <<events_csv, cache, reads, page, runs>>
    /\ UNCHANGED cleaner_vars

\* apply_filters with the widgets in any state they can be brought to.
ApplyFilters ==
    /\ dpc = "filter"
    /\ \E w \in Configs(heap[local.df]) : apply_filters(w)

\* apply_filters on a run that follows at most one touch of a widget.
ApplyFiltersQuick ==
    /\ dpc = "filter"
    /\ \E w \in QuickConfigs(heap[local.df]) : apply_filters(w)

\* apply_filters with every predicate either at rest or narrowed to one value.
ApplyFiltersNarrowed ==
    /\ dpc = "filter"
    /\ \E w \in NarrowedConfigs(heap[local.df]) : apply_filters(w)

\* The statistics are taken of the whole dataset.
SummaryStatsOfDataset ==
    /\ dpc = "page"
    /\ page = "Overview"
    /\ local' = [local EXCEPT
                   !.stats = <<get_summary_stats(heap[local.df])>>]
    /\ dpc' = "body"
    /\ UNCHANGED <<events_csv, cache, reads, heap, next_id, session_state,
                   page, widgets, runs>>
    /\ UNCHANGED cleaner_vars

\* pages/1 line 32: stats = get_summary_stats(filtered_df)
SummaryStats ==
    /\ dpc = "page"
    /\ page = "Overview"
    /\ local' = [local EXCEPT
                   !.stats = <<get_summary_stats(heap[local.filtered_df])>>]
    /\ dpc' = "body"
    /\ UNCHANGED <<events_csv, cache, reads, heap, next_id, session_state,
                   page, widgets, runs>>
    /\ UNCHANGED cleaner_vars

\* pages/1 lines 38-: the cards and charts; line 78 divides the number of
\* major disasters by the number of events.
OverviewBody ==
    /\ dpc = "body"
    /\ page = "Overview"
    /\ IF heap[local.filtered_df] = <<>>
       THEN Raise("ZeroDivisionError")
       ELSE /\ dpc' = "done"
            /\ UNCHANGED local
    /\ UNCHANGED <<events_csv, cache, reads, heap, next_id, session_state,
                   page, widgets, runs>>
    /\ UNCHANGED cleaner_vars

\* pages/4: idxmax of line 37 raises on a view without rows; lines 95-96
\* make map_df, a copy of the view, and add its size column.
GeographicMap ==
    /\ dpc = "page"
    /\ page = "Geographic"
    /\ IF heap[local.filtered_df] = <<>>
       THEN /\ Raise("ValueError")
            /\ UNCHANGED <<heap, next_id>>
       ELSE /\ Allocate(map_size(heap[local.filtered_df]))
            /\ local' = [local EXCEPT !.work = next_id]
            /\ dpc' = "done"
    /\ UNCHANGED <<events_csv, cache, reads, session_state, page, widgets,
                   runs>>
    /\ UNCHANGED cleaner_vars

\* The efficiency columns are written into the loaded frame itself.
ResponseEfficiencyInPlace ==
    /\ dpc = "page"
    /\ page = "Response"
    /\ IF heap[local.filtered_df] = <<>>
       THEN /\ Raise("KeyError")
            /\ UNCHANGED <<heap, next_id>>
       ELSE /\ heap' = [heap EXCEPT ![local.df] = efficiency_columns(@)]
            /\ local' = [local EXCEPT !.work = local.df]
            /\ dpc' = "done"
            /\ UNCHANGED next_id
    /\ UNCHANGED <<events_csv, cache, reads, session_state, page, widgets,
                   runs>>
    /\ UNCHANGED cleaner_vars

\* pages/6 lines 40 and 534: the numbers of immediate and of slow responses.
response_metrics(d) ==
    [immediate_responses |->
        Len(BoolIndex(d, {i \in 1..Len(d) :
                            Lt(d[i].row["response_time_hours"],
                               6 * HourUnits)})),
     slow_responses |->
        Len(BoolIndex(d, {i \in 1..Len(d) :
                            Gt(d[i].row["response_time_hours"],
                               72 * HourUnits)}))]

\* pages/6: mode()[0] of line 41 raises on a view without rows; lines
\* 414-420 make efficiency_df, a copy of the view, and add three columns;
\* lines 40 and 534 count the immediate and the slow responses.
ResponseEfficiency ==
    /\ dpc = "page"
    /\ page = "Response"
    /\ IF heap[local.filtered_df] = <<>>
       THEN /\ Raise("KeyError")
            /\ UNCHANGED <<heap, next_id>>
       ELSE /\ Allocate(efficiency_columns(heap[local.filtered_df]))
            /\ local' = [local EXCEPT
                           !.work = next_id,
                           !.metrics = <<response_metrics(
                                           heap[local.filtered_df])>>]
            /\ dpc' = "done"
    /\ UNCHANGED <<events_csv, cache, reads, session_state, page, widgets,
                   runs>>
    /\ UNCHANGED cleaner_vars

\* The cleaning script has not been run.
CleanerNotStarted ==
    /\ pc = "read_csv"
    /\ raw_csv = File(<<>>)
    /\ df = <<>>
    /\ cleaned_csv = NoFile
    /\ stdout = <<>>
    /\ run = 1
    /\ first_csv = NoFile

InitDashboard ==
    /\ CleanerNotStarted
    /\ DashboardNotStarted
    /\ events_csv \in DashboardFiles

\* One run of one page, the widgets in any state.
NextFilter ==
    \/ Open
    \/ LoadData
    \/ ApplyFilters
    \/ SummaryStats
    \/ OverviewBody
    \/ GeographicMap
    \/ ResponseEfficiency

SpecFilter == InitDashboard /\ [][NextFilter]_vars

\* One run of the Overview page, every predicate at rest or narrowed to one
\* value.
NextOrder ==
    \/ OpenOverview
    \/ LoadData
    \/ ApplyFiltersNarrowed
    \/ SummaryStats
    \/ OverviewBody

SpecOrder == InitDashboard /\ [][NextOrder]_vars

\* Up to MaxRuns runs of any pages in one process.
NextPages ==
    \/ Open
    \/ Rerun
    \/ LoadData
    \/ ApplyFiltersQuick
    \/ SummaryStats
    \/ OverviewBody
    \/ GeographicMap
    \/ ResponseEfficiency

SpecPages == InitDashboard /\ [][NextPages]_vars

----------------------------------------------------------------------------
(* pages/7: correlations                                                   *)

\* lines 37-43: the five continuous fields, in the order of the matrix.
numeric_cols ==
    <<"severity_level", "affected_population", "estimated_economic_loss_usd",
      "response_time_hours", "infrastructure_damage_index">>

\* A correlation coefficient does not change when a column is divided by a
\* positive number: each column is taken in a unit that keeps the products
\* small.
ColumnUnit(col) ==
    CASE col = "affected_population" -> 500
      [] col = "estimated_economic_loss_usd" -> 500000
      [] col = "response_time_hours" -> HourUnits
      [] OTHER -> 1

\* The sum over the pairs of rows of (x_i - x_j) * (y_i - y_j): the
\* covariance of the two columns times the square of the number of rows.
RECURSIVE PairSum(_, _, _)
PairSum(x, y, n) ==
    IF n <= 1 THEN 0
    ELSE PairSum(x, y, n - 1)
           + series_sum([i \in 1..(n - 1) |-> (x[i] - x[n]) * (y[i] - y[n])])

Sign(v) == IF v > 0 THEN 1 ELSE IF v < 0 THEN -1 ELSE 0

\* DataFrame.corr() for two columns, as the sign of Pearson's coefficient:
\* NaN with fewer than two rows or with a column that does not vary.
corr(d, a, b) ==
    LET x == [i \in 1..Len(d) |-> Val(d[i].row[a]) \div ColumnUnit(a)]
        y == [i \in 1..Len(d) |-> Val(d[i].row[b]) \div ColumnUnit(b)]
    IN  IF Len(d) < 2 \/ PairSum(x, x, Len(d)) = 0
                      \/ PairSum(y, y, Len(d)) = 0
        THEN NaN
        ELSE Cell(Sign(PairSum(x, y, Len(d))))

\* lines 47-55: one entry per pair of columns above the diagonal.
corr_pairs(d) ==
    {[var1 |-> numeric_cols[ij[1]], var2 |-> numeric_cols[ij[2]],
      correlation |-> corr(d, numeric_cols[ij[1]], numeric_cols[ij[2]])] :
        ij \in {q \in (1..5) \X (1..5) : q[1] < q[2]}}

\* lines 45-60 and 454: the pairs, the strongest positive and negative pair,
\* and the correlation of severity and population among the severe events.
\* Line 59 takes the first of the positive pairs and raises when there is
\* none; line 60 takes the first negative pair when there is one. The pairs
\* are sorted by the size of the coefficient, which is not modelled: each
\* positive (negative) pair may be the first.
Correlations ==
    /\ dpc = "page"
    /\ page = "Correlations"
    /\ LET d == heap[local.filtered_df]
           pairs == corr_pairs(d)
           positive == {q \in pairs : Gt(q.correlation, 0)}
           negative == {q \in pairs : Lt(q.correlation, 0)}
           severe == BoolIndex(d, {i \in 1..Len(d) :
                                     Ge(d[i].row["severity_level"], 7)})
       IN  IF positive = {}
           THEN Raise("IndexError")
           ELSE /\ \E sp \in positive :
                   \E sn \in (IF negative = {} THEN {NaN}
                              ELSE {Cell(q) : q \in negative}) :
                      local' = [local EXCEPT !.metrics =
                        <<[corr_pairs |-> pairs,
                           strongest_positive |-> Cell(sp),
                           strongest_negative |-> sn,
                           high_severity_corr_pop |->
                              corr(severe, "severity_level",
                                   "affected_population")]>>]
                /\ dpc' = "done"
    /\ UNCHANGED <<events_csv, cache, reads, heap, next_id, session_state,
                   page, widgets, runs>>
    /\ UNCHANGED cleaner_vars

OpenCorrelations == OpenPage("Correlations")

\* One run of the Correlations page, every predicate at rest or narrowed to
\* one value.
NextCorrelations ==
    \/ OpenCorrelations
    \/ LoadData
    \/ ApplyFiltersNarrowed
    \/ Correlations

SpecCorrelations == InitDashboard /\ [][NextCorrelations]_vars

----------------------------------------------------------------------------
(* pages/5 and pages/6 on data at the band thresholds                      *)

\* pages/5 lines 37-40: the severity metrics. Line 39 divides by the number
\* of rows of the view.
severity_metrics(d) ==
    [avg_severity |-> series_mean(column(d, "severity_level")),
     critical_events |->
        Len(BoolIndex(d, {i \in 1..Len(d) :
                            Ge(d[i].row["severity_level"], 9)})),
     high_severity_pct |->
        Ratio(100 * Len(BoolIndex(d, {i \in 1..Len(d) :
                          isin(d[i].row["severity_category"],
                               {"High", "Critical"})})),
              Len(d)),
     avg_infra_damage |->
        series_mean(column(d, "infrastructure_damage_index"))]

SeverityMetrics ==
    /\ dpc = "page"
    /\ page = "Severity"
    /\ IF heap[local.filtered_df] = <<>>
       THEN Raise("ZeroDivisionError")
       ELSE /\ local' = [local EXCEPT
                           !.metrics = <<severity_metrics(
                                           heap[local.filtered_df])>>]
            /\ dpc' = "done"
    /\ UNCHANGED <<events_csv, cache, reads, heap, next_id, session_state,
                   page, widgets, runs>>
    /\ UNCHANGED cleaner_vars

\* Events at the thresholds of the severity and the response bands.
BandEvents ==
    {[EventA("%Y-%m-%d") EXCEPT !["severity_level"] = Cell(s),
                                !["response_time_hours"] = Cell(h)] :
       s \in SeverityLevels, h \in ResponseValues}

\* The dashboard on a data file of one such event, or of none.
InitBands ==
    /\ CleanerNotStarted
    /\ DashboardNotStarted
    /\ events_csv \in {File(<<>>)}
                        \cup {File(<<CleanedRow(e)>>) : e \in BandEvents}

OpenBands == \E p \in {"Response", "Severity"} : OpenPage(p)

NextBands ==
    \/ OpenBands
    \/ LoadData
    \/ ApplyFiltersQuick
    \/ ResponseEfficiency
    \/ SeverityMetrics

SpecBands == InitBands /\ [][NextBands]_vars

----------------------------------------------------------------------------
(* The filter engine                                                       *)

\* apply_filters has returned in the current run.
Returned == local.filtered_df # None

Dataset == heap[local.df]
View == heap[local.filtered_df]
F == widgets[1]

DateInRange(r, w) ==
    /\ Ordinal(Val(w.date_range[1])) <= Ordinal(Val(r["date"]))
    /\ Ordinal(Val(r["date"])) <= Ordinal(Val(w.date_range[2]))
TypeSelected(r, w) == Val(r["disaster_type"]) \in w.disaster_types
BandSelected(r, w) == Val(r["severity_category"]) \in w.severity_filter
AidSelected(r, w) == Val(r["aid_provided"]) \in w.aid_types
LocationSelected(r, w) ==
    ("All" \notin w.location_filter /\ w.location_filter # {})
      => Val(r["location"]) \in w.location_filter
MajorSelected(r, w) == w.major_only => Val(r["is_major_disaster"]) = 1

Satisfies(r, w) ==
    /\ DateInRange(r, w)
    /\ TypeSelected(r, w)
    /\ BandSelected(r, w)
    /\ AidSelected(r, w)
    /\ LocationSelected(r, w)
    /\ MajorSelected(r, w)

\* C11: the view apply_filters returns holds exactly the rows of the dataset
\* that satisfy all active predicates together (both ends of the date range
\* included; the location predicate active when the selection is not empty
\* and has no "All"), each as it is in the dataset, in the dataset's order.
C11_ExactConjunction ==
    Returned =>
        /\ \A k \in 1..Len(View) : \E i \in 1..Len(Dataset) :
              View[k] = Dataset[i]
        /\ \A k, l \in 1..Len(View) : k < l => View[k].index < View[l].index
        /\ {View[k].index : k \in 1..Len(View)}
             = {Dataset[i].index :
                  i \in {j \in 1..Len(Dataset) :
                           Satisfies(Dataset[j].row, F)}}

\* The first and the third of three rows are returned, the second is not,
\* with a location selected and the end date met exactly.
C11_Witness ==
    /\ Returned
    /\ Len(Dataset) = 3
    /\ Len(View) = 2
    /\ View[1].index = 0
    /\ View[2].index = 2
    /\ "All" \notin F.location_filter /\ F.location_filter # {}
    /\ View[2].row["date"] = F.date_range[2]
    /\ F.date_range[1] # F.date_range[2]

\* C12 as stated: an empty selection of types, bands, aid types or locations
\* leaves no row.
C12_EmptyMatchesNothing ==
    (Returned /\ (\/ F.disaster_types = {}
                  \/ F.severity_filter = {}
                  \/ F.aid_types = {}
                  \/ F.location_filter = {}))
        => Len(View) = 0

\* C12: an empty selection of disaster types, severity bands or aid types
\* leaves no row; an empty selection of locations disables the location
\* predicate, as a selection with "All" does.
C12_EmptySelections ==
    Returned =>
        /\ (\/ F.disaster_types = {}
            \/ F.severity_filter = {}
            \/ F.aid_types = {}) => Len(View) = 0
        /\ F.location_filter = {} =>
              View = filter_rows(Dataset,
                                 [F EXCEPT !.location_filter = {"All"}])

\* No location selected, and every row of the dataset is returned.
C12_Witness ==
    /\ Returned
    /\ F.location_filter = {}
    /\ Len(Dataset) = 3
    /\ Len(View) = 3

\* C13: with "All" in the location selection the view is the one the other
\* five predicates alone give.
C13_AllIsNoLocationPredicate ==
    (Returned /\ "All" \in F.location_filter) =>
        View = BoolIndex(Dataset,
                 {i \in 1..Len(Dataset) :
                    /\ DateInRange(Dataset[i].row, F)
                    /\ TypeSelected(Dataset[i].row, F)
                    /\ BandSelected(Dataset[i].row, F)
                    /\ AidSelected(Dataset[i].row, F)
                    /\ MajorSelected(Dataset[i].row, F)})

\* The selection is "All" alone, rows of two locations are returned, and
\* another predicate has removed a row.
C13_Witness ==
    /\ Returned
    /\ F.location_filter = {"All"}
    /\ Len(Dataset) = 3
    /\ Len(View) = 2
    /\ View[1].row["location"] # View[2].row["location"]

\* C14: the same widget values applied to the returned view give that view.
C14_Idempotent == Returned => filter_rows(View, F) = View

\* A view that lost rows of the dataset and kept others.
C14_Witness ==
    /\ Returned
    /\ Len(Dataset) = 3
    /\ Len(View) = 2
    /\ F.major_only = FALSE
    /\ F.disaster_types = {"Flood"}

\* The six predicates, numbered.
Predicate(k, r, w) ==
    CASE k = 1 -> DateInRange(r, w)
      [] k = 2 -> TypeSelected(r, w)
      [] k = 3 -> BandSelected(r, w)
      [] k = 4 -> AidSelected(r, w)
      [] k = 5 -> LocationSelected(r, w)
      [] k = 6 -> MajorSelected(r, w)

\* The rows at the positions kept are put through the predicates of rest,
\* one after the other, each applied to what the one before it left: in
\* every order of rest, the positions left at the end are those of target.
RECURSIVE EveryOrderGives(_, _, _, _, _)
EveryOrderGives(d, w, rest, kept, target) ==
    IF rest = {} THEN kept = target
    ELSE \A k \in rest :
           EveryOrderGives(d, w, rest \ {k},
                           {i \in kept : Predicate(k, d[i].row, w)}, target)

\* C15: whatever the order the six predicates are applied in, the rows left
\* are the rows of the returned view, and the view has them in the dataset's
\* order.
C15_OrderIndependent ==
    (Returned /\ dpc = "page") =>
        LET kept == {i \in 1..Len(Dataset) :
                       \E k \in 1..Len(View) : View[k] = Dataset[i]}
        IN  /\ View = BoolIndex(Dataset, kept)
            /\ EveryOrderGives(Dataset, F, 1..6, 1..Len(Dataset), kept)

\* The location and major-only stages both act, after a mask that removed
\* nothing.
C15_Witness ==
    /\ Returned
    /\ Len(Dataset) = 3
    /\ F.location_filter = {"Peru"}
    /\ F.major_only
    /\ Len(View) = 1
    /\ View[1].index = 2

----------------------------------------------------------------------------
(* The summary engine                                                      *)

\* get_summary_stats has returned in the current run.
Summarised == local.stats # <<>>

Stats == local.stats[1]

\* The values of a column added up by hand, one row after the other.
RECURSIVE ManualSum(_, _, _)
ManualSum(d, col, n) ==
    IF n = 0 THEN 0 ELSE ManualSum(d, col, n - 1) + Val(d[n].row[col])

\* C19: total_events is the number of rows of the view get_summary_stats was
\* given, and total_affected is the sum of affected_population over exactly
\* those rows.
C19_TotalsOfTheView ==
    Summarised =>
        /\ Stats.total_events = Cell(Len(View))
        /\ Stats.total_affected
             = Cell(ManualSum(View, "affected_population", Len(View)))

\* Two of three rows are in the view, a small and a large event.
C19_Witness ==
    /\ Summarised
    /\ Len(Dataset) = 3
    /\ Stats.total_events = Cell(2)
    /\ Stats.total_affected = Cell(150500)

ContinuousFields ==
    {"severity_level", "affected_population", "estimated_economic_loss_usd",
     "response_time_hours", "infrastructure_damage_index"}

\* The mapping has a value computed as the aggregate agg of the column col.
HasMetric(agg, col) ==
    \E k \in DOMAIN Stats : SummaryMetrics[k] = <<agg, col>>

\* C20 as stated: sum, mean and median of each of the three fields, the two
\* counts, the two distinct counts, the date span, and the correlations of
\* the five continuous fields.
C20_AllAggregates ==
    Summarised =>
        /\ \A col \in {"affected_population", "estimated_economic_loss_usd",
                       "response_time_hours"} :
              \A agg \in {"sum", "mean", "median"} : HasMetric(agg, col)
        /\ HasMetric("count", "rows")
        /\ HasMetric("count", "is_major_disaster")
        /\ HasMetric("nunique", "location")
        /\ HasMetric("nunique", "disaster_type")
        /\ HasMetric("span", "date")
        /\ \A a, b \in ContinuousFields : a # b => HasMetric("corr", <<a, b>>)

\* The values of a column in ascending order.
Ascending(d, col) ==
    CHOOSE q \in [1..Len(d) -> {Val(d[i].row[col]) : i \in 1..Len(d)}] :
        /\ \A i, j \in 1..Len(d) : i < j => q[i] <= q[j]
        /\ \A x \in {Val(d[i].row[col]) : i \in 1..Len(d)} :
              Cardinality({i \in 1..Len(d) : q[i] = x})
                = Cardinality({i \in 1..Len(d) : Val(d[i].row[col]) = x})

\* The aggregate agg of the column col over the frame d.
Aggregate(agg, col, d) ==
    LET n == Len(d)
        distinct == {d[i].row[col] : i \in 1..n}
        days == {Ordinal(Val(c)) : c \in distinct}
    IN  CASE agg = "count" /\ col = "rows" -> Cell(n)
          [] agg = "count" /\ col # "rows" ->
                Cell(Cardinality({i \in 1..n : d[i].row[col] = Cell(1)}))
          [] agg = "sum" -> Cell(ManualSum(d, col, n))
          [] agg = "mean" ->
                IF n = 0 THEN NaN ELSE Cell(Ratio(ManualSum(d, col, n), n))
          [] agg = "median" ->
                IF n = 0 THEN NaN
                ELSE IF n % 2 = 1
                THEN Cell(Ratio(Ascending(d, col)[(n + 1) \div 2], 1))
                ELSE Cell(Ratio(Ascending(d, col)[n \div 2]
                                  + Ascending(d, col)[(n \div 2) + 1], 2))
          [] agg = "nunique" -> Cell(Cardinality(distinct))
          [] agg = "span" ->
                IF n = 0 THEN NaN
                ELSE Cell((CHOOSE a \in days : \A b \in days : a >= b)
                            - (CHOOSE a \in days : \A b \in days : a <= b))

\* C20: the mapping has thirteen values: the row count and the major-disaster
\* count; sum and mean of affected_population and of
\* estimated_economic_loss_usd; mean and median of response_time_hours; the
\* means of severity_level and infrastructure_damage_index; the distinct
\* counts of location and disaster_type; the date span in days. It has no
\* median of the population or the loss, no sum of the response time, and no
\* correlation.
C20_ThirteenMetrics ==
    Summarised =>
        /\ DOMAIN Stats = DOMAIN SummaryMetrics
        /\ \A k \in DOMAIN Stats :
              Stats[k] = Aggregate(SummaryMetrics[k][1], SummaryMetrics[k][2],
                                   View)
        /\ ~HasMetric("median", "affected_population")
        /\ ~HasMetric("median", "estimated_economic_loss_usd")
        /\ ~HasMetric("sum", "response_time_hours")
        /\ \A k \in DOMAIN Stats : SummaryMetrics[k][1] # "corr"

\* Statistics of a view of two rows with different response times, where the
\* median lies between the two.
C20_Witness ==
    /\ Summarised
    /\ Len(View) = 2
    /\ View[1].row["response_time_hours"] # View[2].row["response_time_hours"]
    /\ Stats.median_response_time
         = Cell(Ratio(Val(View[1].row["response_time_hours"])
                        + Val(View[2].row["response_time_hours"]), 2))

----------------------------------------------------------------------------
(* The loaded dataset across script runs                                   *)

\* The dataset as load_data's body builds it from the data file.
Loaded == load_data_body(events_csv)

\* The objects that were returned by load_data and are still referred to.
DatasetHandles ==
    {local.df, session_state.original_df} \cap DOMAIN heap

\* C16: whatever was run after loading, every dataset load_data returned and
\* the cached dataset have the rows, columns and values of the loaded file;
\* the view is an object of its own with the dataset's columns, and a page's
\* derived columns are in a third object.
C16_DatasetUnchanged ==
    /\ cache # <<>> => cache[1] = Loaded
    /\ \A h \in DatasetHandles : heap[h] = Loaded
    /\ Returned =>
          /\ local.filtered_df # local.df
          /\ \A k \in 1..Len(View) : \E i \in 1..Len(Dataset) :
                View[k] = Dataset[i]
    /\ local.work # None => local.work \notin {local.df, local.filtered_df}

\* A second run has added the efficiency columns to its copy of the view,
\* after apply_filters stored the run's dataset in st.session_state.
C16_Witness ==
    /\ runs = 2
    /\ page = "Response"
    /\ local.work # None
    /\ "efficiency_score" \in DOMAIN heap[local.work][1].row
    /\ Len(Dataset) = 3
    /\ session_state.original_df = local.df

\* C17 as stated: the file is read at most once, and the dataset a call
\* returns is the very object the call before it returned.
C17_SharedHandle ==
    /\ reads <= 1
    /\ (local.df # None /\ session_state.original_df # None)
          => local.df = session_state.original_df

\* C17: the file is read at most once in a process, and exactly once when a
\* dataset is cached; every call returns a dataset equal to the cached one,
\* in an object of its own, which is not the object an earlier call returned.
C17_ReadOnceCopyPerCall ==
    /\ reads <= 1
    /\ cache # <<>> => reads = 1
    /\ \A h \in DatasetHandles : cache # <<>> /\ heap[h] = cache[1]
    /\ (dpc = "filter" /\ session_state.original_df # None)
          => local.df # session_state.original_df

\* The second run has loaded its dataset, the first run's dataset is still
\* in st.session_state, and the file was read once.
C17_Witness ==
    /\ runs = 2
    /\ dpc = "filter"
    /\ session_state.original_df \in DOMAIN heap
    /\ Len(heap[local.df]) = 3
    /\ reads = 1

----------------------------------------------------------------------------
(* The cleaning script's output and the dashboard's input                  *)

\* Raw files for the hand-over: the two events and an event out of range.
HandoverFiles ==
    {File(rows) :
       rows \in SeqsUpTo({EventA("%Y-%m-%d"), EventB("%Y-%m-%d"),
                          [EventA("%Y-%m-%d") EXCEPT
                             !["severity_level"] = Cell(11)]}, MaxRows)}

\* The working directory holds the raw file, and disaster_events.csv is
\* absent or holds an event of some earlier export.
InitHandover ==
    /\ pc = "read_csv"
    /\ raw_csv \in HandoverFiles
    /\ df = <<>>
    /\ cleaned_csv = NoFile
    /\ stdout = <<>>
    /\ run = 1
    /\ first_csv = NoFile
    /\ DashboardNotStarted
    /\ events_csv \in {NoFile, File(<<CleanedRow(EventC("%Y-%m-%d"))>>)}

\* The dashboard is started once the cleaning script has finished.
OpenAfterCleaning ==
    /\ pc = "done"
    /\ Open

\* The cleaning script, then the dashboard's load_data.
NextHandover ==
    \/ LoadRaw
    \/ ConvertDate
    \/ TemporalFeatures
    \/ HandleMissing
    \/ RemoveDuplicates
    \/ ValidateRanges
    \/ SeverityCategories
    \/ EconomicCategories
    \/ ResponseCategories
    \/ PopulationCategories
    \/ SaveCleaned
    \/ OpenAfterCleaning
    \/ LoadData

SpecHandover == InitHandover /\ [][NextHandover]_vars

----------------------------------------------------------------------------
(* The cleaning script's fatal errors                                      *)

\* Raw inputs for the fatal cases: no file, or a file of the two events and
\* an event whose date text is the 40th day of a 13th month.
FatalFiles ==
    {NoFile}
      \cup {File(rows) :
              rows \in SeqsUpTo({EventA("%Y-%m-%d"), EventB("%Y-%m-%d"),
                                 [EventA("%Y-%m-%d") EXCEPT
                                    !["date"] = Cell(<<2025, 13, 40>>)]},
                                MaxRows)}

\* The cleaned file is absent or left by an earlier run.
InitFatal ==
    /\ pc = "read_csv"
    /\ raw_csv \in FatalFiles
    /\ df = <<>>
    /\ cleaned_csv \in {NoFile, File(<<CleanedRow(EventC("%Y-%m-%d"))>>)}
    /\ stdout = <<>>
    /\ run = 1
    /\ first_csv = NoFile
    /\ DashboardNotStarted
    /\ events_csv = NoFile

\* step 10 when the write fails on the way (a full disk, a lost mount):
\* to_csv has opened the file for writing, which empties it, and has written
\* some of the lines; the exception ends the script.
SaveCleanedFails ==
    /\ pc = "step10"
    /\ \E k \in 0..Len(df) :
          cleaned_csv' = File(SubSeq(to_csv(df).rows, 1, k))
    /\ pc' = "raised"
    /\ UNCHANGED <<raw_csv, df, stdout, run, first_csv>>
    /\ UNCHANGED dash_vars

NextFatal ==
    \/ LoadRaw
    \/ ConvertDate
    \/ TemporalFeatures
    \/ HandleMissing
    \/ RemoveDuplicates
    \/ ValidateRanges
    \/ SeverityCategories
    \/ EconomicCategories
    \/ ResponseCategories
    \/ PopulationCategories
    \/ SaveCleaned
    \/ SaveCleanedFails

SpecFatal == InitFatal /\ [][NextFatal]_vars

\* C18: once the cleaning script has written its table and load_data has
\* been called, load_data has returned, and the rows it returned are the
\* rows the script wrote.
C18_LoaderReadsCleanerOutput ==
    (Written /\ dpc \in {"filter", "raised"}) =>
        /\ dpc = "filter"
        /\ heap[local.df] = load_data_body(cleaned_csv)

----------------------------------------------------------------------------
(* Views without rows                                                      *)

\* C21: get_summary_stats on a view without rows returns, without raising,
\* 0 for total_events, major_disasters, total_affected and
\* total_economic_loss, and NaN for every mean, the median and the date span.
C21_EmptySummary ==
    /\ (Summarised /\ Len(View) = 0) =>
          /\ Stats.total_events = Cell(0)
          /\ Stats.major_disasters = Cell(0)
          /\ Stats.total_affected = Cell(0)
          /\ Stats.total_economic_loss = Cell(0)
          /\ \A k \in DOMAIN Stats :
                SummaryMetrics[k][1] \in {"mean", "median", "span"}
                  => Stats[k] = NaN
    /\ (page = "Overview" /\ Returned /\ dpc = "raised") => Summarised

\* Statistics of an empty view of a dataset of three rows.
C21_Witness ==
    /\ Summarised
    /\ Len(View) = 0
    /\ Len(Dataset) = 3
    /\ Stats.avg_affected = NaN

\* C22: when apply_filters has returned a view without rows, the page that
\* called it runs to its end.
C22_EmptyViewHandled ==
    (Returned /\ Len(View) = 0) => dpc # "raised"

\* C23: on a view of fewer than two rows every correlation of two of the
\* five continuous fields is NaN, and the page that picks the strongest
\* pairs runs to its end.
C23_DegenerateCorrelations ==
    (page = "Correlations" /\ Returned /\ Len(View) < 2
       /\ dpc \in {"done", "raised"}) =>
        /\ \A q \in corr_pairs(View) : q.correlation = NaN
        /\ dpc = "done"

----------------------------------------------------------------------------
(* Fatal errors of the cleaning script                                     *)

\* C24: the step at which the script stops with an error leaves the cleaned
\* file as it was, absent or with its earlier content, and so does every
\* step before the persistence step.
C24_NoOutputOnFatalError ==
    [][(pc' = "raised" \/ pc # "step10") => cleaned_csv' = cleaned_csv]_vars

----------------------------------------------------------------------------
(* Bands against their published bounds                                    *)

\* C25: a row is put in the band Catastrophic only if its loss exceeds
\* 100,000,000 and in the band Slow only if its response time exceeds 72
\* hours; a loss from 10,000,000 to 100,000,000 is Severe and a response time
\* from 24 to 72 hours is Moderate.
C25_BandsWithinPublishedBounds ==
    \A i \in RowsWith("response_category") :
        LET r == df[i].row
            l == Val(r["estimated_economic_loss_usd"])
            h == Val(r["response_time_hours"])
        IN  /\ r["economic_impact_category"] = Cell("Catastrophic (>$100M)")
                 => l > 100000000
            /\ r["response_category"] = Cell("Slow (>72h)")
                 => h > 72 * HourUnits
            /\ (10000000 <= l /\ l <= 100000000)
                 => r["economic_impact_category"]
                      = Cell("Severe ($10M-$100M)")
            /\ (24 * HourUnits <= h /\ h <= 72 * HourUnits)
                 => r["response_category"] = Cell("Moderate (24-72h)")

----------------------------------------------------------------------------
(* What the cleaning script reports                                        *)

\* The count printed under one of the labels, or -1 when none is printed.
Reported(labels) ==
    IF \E k \in 1..Len(stdout) : stdout[k][1] \in labels
    THEN stdout[CHOOSE k \in 1..Len(stdout) : stdout[k][1] \in labels][2]
    ELSE -1

\* C26: a finished run has printed three counts: the rows dropped for
\* missing values, the rows dropped as duplicates, and the rows dropped for
\* values out of range, which is the number of raw rows that are neither
\* reported as dropped before nor persisted.
C26_ThreeCountsReported ==
    Written =>
        LET missing == Reported({"Rows removed"})
            duplicate == Reported({"Duplicates removed",
                                   "No duplicates found"})
            total == Reported({"Total events"})
        IN  /\ missing >= 0
            /\ duplicate >= 0
            /\ \E k \in 1..Len(stdout) :
                  /\ stdout[k][1] \notin {"Rows removed", "Duplicates removed",
                                         "No duplicates found",
                                         "Total events"}
                  /\ stdout[k][2]
                       = Len(raw_csv.rows) - missing - duplicate - total

----------------------------------------------------------------------------
(* Thresholds re-derived by the pages                                      *)

\* The number of rows of the view with the value v in the column col.
CountWhere(col, v) ==
    Cardinality({i \in 1..Len(View) : View[i].row[col] = Cell(v)})

\* C27: the Response page's immediate count is the number of rows of the view
\* in the band Immediate, its slow count the number in the band Slow, and the
\* Severity page's critical count the number in the band Critical.
C27_CountsAgreeWithBands ==
    local.metrics # <<>> =>
        /\ page = "Response" =>
              /\ local.metrics[1].immediate_responses
                   = CountWhere("response_category", "Immediate (<6h)")
              /\ local.metrics[1].slow_responses
                   = CountWhere("response_category", "Slow (>72h)")
        /\ page = "Severity" =>
              local.metrics[1].critical_events
                = CountWhere("severity_category", "Critical")

----------------------------------------------------------------------------
(* The two filters, and "All" among other locations                        *)

\* C28: with every aid type selected and the location selection "All", the
\* filter of streamlit-dashboard.py, given the same dataset, date range,
\* types, bands and major-only flag, yields the view apply_filters returned:
\* the same rows in the same order.
C28_FiltersAgree ==
    (/\ Returned
     /\ F.aid_types = unique(Dataset, "aid_provided")
     /\ F.location_filter = {"All"})
        => dashboard_filter(Dataset, F) = View

\* Both filters have removed rows, by the severity band and by the
\* major-only flag.
C28_Witness ==
    /\ Returned
    /\ F.aid_types = unique(Dataset, "aid_provided")
    /\ F.location_filter = {"All"}
    /\ Len(Dataset) = 3
    /\ F.severity_filter = {"Critical"}
    /\ F.major_only
    /\ Len(View) = 1

\* C29: with "All" selected together with specific locations the returned
\* view is the one the selection "All" alone gives; it holds every row that
\* passes the other predicates, whatever its location.
C29_AllAmongLocations ==
    (Returned /\ "All" \in F.location_filter /\ F.location_filter # {"All"})
        => /\ View = filter_rows(Dataset,
                                 [F EXCEPT !.location_filter = {"All"}])
           /\ \A i \in 1..Len(Dataset) :
                 (/\ DateInRange(Dataset[i].row, F)
                  /\ TypeSelected(Dataset[i].row, F)
                  /\ BandSelected(Dataset[i].row, F)
                  /\ AidSelected(Dataset[i].row, F)
                  /\ MajorSelected(Dataset[i].row, F))
                    => \E k \in 1..Len(View) : View[k] = Dataset[i]

\* "All" and Chile are selected, and a row located in Peru is returned.
C29_Witness ==
    /\ Returned
    /\ F.location_filter = {"All", "Chile"}
    /\ \E k \in 1..Len(View) : View[k].row["location"] = Cell("Peru")

----------------------------------------------------------------------------
(* What st.session_state holds                                             *)

StoredView == heap[session_state.filtered_df]
StoredOriginal == heap[session_state.original_df]

\* C30: the view st.session_state holds is the view of the most recent call
\* of apply_filters, the rows of the stored dataset that pass the selection
\* of that call, and when the call has returned the stored handles are the
\* returned view and the dataset passed in.
C30_StoredViewIsOfLastCall ==
    (widgets # <<>> /\ session_state.filtered_df # None) =>
        /\ Len(F.date_range) = 2
        /\ StoredView = filter_rows(StoredOriginal, F)
        /\ \A k \in 1..Len(StoredView) :
              \E i \in 1..Len(StoredOriginal) : StoredOriginal[i] = StoredView[k]
        /\ Returned => /\ session_state.filtered_df = local.filtered_df
                       /\ session_state.original_df = local.df

====
